---- MODULE Spec2Model ----
(***************************************************************************)
(* W3Champions stats bot (src/main.py): the /run handler with its daily    *)
(* gate (last_posted_date) and the Discord webhook delivery client         *)
(* send_discord_embeds with its retry / backoff loop.                      *)
(*                                                                         *)
(* Five specifications share the variables:                                *)
(*   SpecSeq       /run triggers handled one at a time;                    *)
(*   SpecConc      /run triggers handled by concurrent threads;            *)
(*   SpecSend      one call of send_discord_embeds, statement by statement;*)
(*   SpecEmbed     one call of make_player_embed;                          *)
(*   SpecTelegram  one call of safe_send_to_telegram, chunk by chunk.      *)
(* In SpecSeq and SpecConc the call at line 356 is one step of run whose   *)
(* result is any result the function can produce for the configuration.    *)
(* Durations are in milliseconds (1.0 s = 1000, 0.2 s = 200).              *)
(***************************************************************************)
EXTENDS Integers, Sequences, FiniteSets, TLC

----------------------------------------------------------------------------
(* Bounds of the model *)

NumThreads == 2     \* request threads of the server
MaxDay == 2         \* calendar days 1..MaxDay
MaxPlayers == 11    \* lines of players.txt
MaxEmbeds == 11     \* embeds handed to one call explored by SpecSend
MaxPosted == 2      \* the per-day publish counter saturates here
EmbedWindow == 6    \* description lengths 0..w and 4000-w..4000+w
TextWindow == 2     \* Telegram text lengths within w of a multiple of 4000
MaxFullChunks == 2  \* Telegram texts of up to that many full chunks (+ w)
ShortLen == 3       \* length of the short response body
LongLen == 601      \* length of the long response body

----------------------------------------------------------------------------
(* Program constants *)

NoDate == 0             \* last_posted_date = None
BatchSize == 10         \* embeds[:10], range(0, len(all_embeds), 10)
MaxAttempts == 5        \* range(5)
InitialBackoff == 1000  \* backoff = 1.0
BackoffCeiling == 8000  \* min(backoff * 2, 8.0)
JitterStep == 200       \* 0.2 * attempt
BodyLimit == 600        \* (r.text or "")[:600]
DescLimit == 4000       \* len(description) > 4000
DescKeep == 3995        \* description[:3995]
Ellipsis == 8230        \* the character U+2026
ZeroWidthSpace == 8203  \* the character U+200B
EmbedColor == 15844367  \* 0xF1C40F
MAX_LENGTH == 4000      \* safe_send_to_telegram

Threads == 1..NumThreads
Days == 1..MaxDay
Unset == "None"         \* os.getenv of a variable that is not set
WebhookUrl == "https://discord.example/api/webhooks/1"

Min(a, b) == IF a <= b THEN a ELSE b

VARIABLES
    \* process-wide state and environment
    last_posted_date,       \* the global of line 36
    clock,                  \* the calendar day date.today() returns
    players_txt,            \* number of non-blank lines of players.txt
    DISCORD_DISABLE, DISCORD_WEBHOOK_URL, TELEGRAM_TOKEN, TELEGRAM_CHANNEL,
    \* run(), per request thread
    pc, today, all_embeds, i, dc_status, tg_sent,
    \* history of run(), per request thread / per day
    entry_date,             \* last_posted_date when the run read the date
    batches,                \* the chunks handed to send_discord_embeds
    marked,                 \* the run has executed line 366
    posted,                 \* per day: runs that published it completely
    \* send_discord_embeds (one call)
    send_pc, embeds, payload, attempt, backoff, r, ret,
    \* history of the call
    calls,                  \* requests.post calls made
    responses,              \* status codes of the responses received
    sleeps,                 \* durations handed to time.sleep
    \* make_player_embed (one call)
    me_pc, title, description, url, embed,
    \* safe_send_to_telegram (one call)
    tg_pc, tg_text, parts, idx,
    tg_posts                \* history: the payloads posted and their statuses

runVars == <<pc, today, all_embeds, i, dc_status, tg_sent, entry_date,
             batches, marked, posted>>
envVars == <<clock, players_txt, DISCORD_DISABLE, DISCORD_WEBHOOK_URL,
             TELEGRAM_TOKEN, TELEGRAM_CHANNEL>>
sendVars == <<send_pc, embeds, payload, attempt, backoff, r, ret,
              calls, responses, sleeps>>
textVars == <<me_pc, title, description, url, embed,
              tg_pc, tg_text, parts, idx, tg_posts>>
vars == <<last_posted_date, envVars, runVars, sendVars, textVars>>

----------------------------------------------------------------------------
(* Texts: Python strings as sequences of character codes *)

MsgOK == <<79, 75>>
MsgDisabled == <<68, 105, 115, 99, 111, 114, 100, 32, 100, 105, 115, 97, 98,
                 108, 101, 100>>
MsgNoUrl == <<68, 73, 83, 67, 79, 82, 68, 95, 87, 69, 66, 72, 79, 79, 75, 95,
              85, 82, 76, 32, 105, 115, 32, 110, 111, 116, 32, 115, 101, 116>>
MsgNoEmbeds == <<78, 111, 32, 101, 109, 98, 101, 100, 115, 32, 116, 111, 32,
                 115, 101, 110, 100>>

\* a response body of n characters
Body(n) == [k \in 1..n |-> 97 + (k % 26)]
Bodies == {Body(0), Body(ShortLen), Body(LongLen)}

\* variant: the test for a missing value is left out
Falsy_Never(x) == FALSE

\* not x, for a configuration value
Falsy(x) == x \in {Unset, ""}

----------------------------------------------------------------------------
(* Responses of the webhook endpoint *)

SuccessStatuses == {200, 204}
ErrorStatuses == {429, 500}
RetryAfterValues == {1000, 2000}

\* What r.json().get("retry_after") offers: the key is absent from the JSON
\* object, float() or r.json() raises ("unparsable"), or a number (in ms).
RetryAfterFields ==
    {[kind |-> "absent", ms |-> 0], [kind |-> "unparsable", ms |-> 0]}
    \cup {[kind |-> "number", ms |-> v] : v \in RetryAfterValues}

Response(st, txt, ra) == [status |-> st, text |-> txt, retry_after |-> ra]

Responses ==
    {Response(st, Body(0), [kind |-> "absent", ms |-> 0]) : st \in SuccessStatuses}
    \cup {Response(500, txt, [kind |-> "absent", ms |-> 0]) : txt \in Bodies}
    \cup {Response(429, txt, ra) : txt \in Bodies, ra \in RetryAfterFields}

NoResponse == Response(0, <<>>, [kind |-> "absent", ms |-> 0])
NoReturn == [status |-> 0, msg |-> <<>>]

----------------------------------------------------------------------------
(* send_discord_embeds, lines 73-123 *)

\* variant: only 200 counts as delivered
IsSuccess_Only200(st) == st = 200

\* r.status_code in (200, 204)
IsSuccess(st) == st \in {200, 204}

\* variant: the server's advice is ignored
RetryAfter_Ignored(resp, bo) == bo

\* lines 101-104: float(r.json().get("retry_after", backoff)), backoff on error
RetryAfter(resp, bo) ==
    IF resp.retry_after.kind = "number" THEN resp.retry_after.ms ELSE bo

\* 0.2 * attempt
Jitter(a) == JitterStep * a

\* variant: the doubling has no ceiling
NextBackoff_Uncapped(bo) == bo * 2

\* variant: the backoff starts over once it would pass the ceiling
NextBackoff_Wraps(bo) ==
    IF bo * 2 > BackoffCeiling THEN InitialBackoff ELSE bo * 2

\* line 121
NextBackoff(bo) == Min(bo * 2, BackoffCeiling)

\* variant: the body is returned whole
Truncate_None(txt) == txt

\* (r.text or "")[:600]
Truncate(txt) == SubSeq(txt, 1, Min(Len(txt), BodyLimit))

\* the for loop of line 90 has another iteration
LoopContinues == attempt < MaxAttempts

SendTerminal == {"SKIPPED", "EMPTY", "SUCCESS", "EXHAUSTED", "RAISED"}

SendReturns(state, st, msg) ==
    /\ send_pc' = state
    /\ ret' = [status |-> st, msg |-> msg]

\* variant: the test for an empty batch (line 80) is left out
send_enter_unchecked_empty ==
    /\ send_pc = "idle"
    /\ \E n \in 0..MaxEmbeds :
         /\ embeds' = [k \in 1..n |-> k]
         /\ IF DISCORD_DISABLE = "1"
              THEN /\ SendReturns("SKIPPED", 204, MsgDisabled)
                   /\ UNCHANGED <<payload, backoff, attempt>>
            ELSE IF Falsy(DISCORD_WEBHOOK_URL)
              THEN /\ SendReturns("SKIPPED", 400, MsgNoUrl)
                   /\ UNCHANGED <<payload, backoff, attempt>>
            ELSE /\ payload' = SubSeq(embeds', 1, Min(n, BatchSize))
                 /\ backoff' = InitialBackoff
                 /\ attempt' = 0
                 /\ send_pc' = "attempt"
                 /\ ret' = ret
    /\ UNCHANGED <<r, responses, sleeps, calls>>
    /\ UNCHANGED <<last_posted_date, envVars, runVars, textVars>>

\* lines 73-89: the call, its early returns and the set-up of the loop.
\* The batch is a sequence of embed ids.
send_enter ==
    /\ send_pc = "idle"
    /\ \E n \in 0..MaxEmbeds :
         /\ embeds' = [k \in 1..n |-> k]
         /\ IF DISCORD_DISABLE = "1"
              THEN /\ SendReturns("SKIPPED", 204, MsgDisabled)
                   /\ UNCHANGED <<payload, backoff, attempt>>
            ELSE IF Falsy(DISCORD_WEBHOOK_URL)
              THEN /\ SendReturns("SKIPPED", 400, MsgNoUrl)
                   /\ UNCHANGED <<payload, backoff, attempt>>
            ELSE IF n = 0
              THEN /\ SendReturns("EMPTY", 204, MsgNoEmbeds)
                   /\ UNCHANGED <<payload, backoff, attempt>>
            ELSE /\ payload' = SubSeq(embeds', 1, Min(n, BatchSize))
                 /\ backoff' = InitialBackoff
                 /\ attempt' = 0
                 /\ send_pc' = "attempt"
                 /\ ret' = ret
    /\ UNCHANGED <<r, responses, sleeps, calls>>
    /\ UNCHANGED <<last_posted_date, envVars, runVars, textVars>>

\* lines 91-94: requests.post returns a response
send_post ==
    /\ send_pc = "attempt"
    /\ LoopContinues
    /\ \E resp \in Responses :
         /\ r' = resp
         /\ responses' = Append(responses, resp.status)
    /\ calls' = calls + 1
    /\ send_pc' = "response"
    /\ UNCHANGED <<embeds, payload, attempt, backoff, ret, sleeps>>
    /\ UNCHANGED <<last_posted_date, envVars, runVars, textVars>>

\* lines 91-94: requests.post raises (connection error, timeout); nothing in
\* send_discord_embeds catches it
send_post_raises ==
    /\ send_pc = "attempt"
    /\ LoopContinues
    /\ calls' = calls + 1
    /\ send_pc' = "RAISED"
    /\ UNCHANGED <<embeds, payload, attempt, backoff, r, ret, responses, sleeps>>
    /\ UNCHANGED <<last_posted_date, envVars, runVars, textVars>>

\* lines 95-96
send_success ==
    /\ send_pc = "response"
    /\ IsSuccess(r.status)
    /\ SendReturns("SUCCESS", r.status, MsgOK)
    /\ UNCHANGED <<embeds, payload, attempt, backoff, r, responses, sleeps, calls>>
    /\ UNCHANGED <<last_posted_date, envVars, runVars, textVars>>

\* variant: a rate-limited attempt is not counted (the loop index stays)
send_rate_limited_uncounted ==
    /\ send_pc = "response"
    /\ ~IsSuccess(r.status)
    /\ r.status = 429
    /\ sleeps' = Append(sleeps, RetryAfter(r, backoff) + Jitter(attempt))
    /\ send_pc' = "attempt"
    /\ UNCHANGED <<embeds, payload, attempt, backoff, r, ret, responses, calls>>
    /\ UNCHANGED <<last_posted_date, envVars, runVars, textVars>>

\* variant: a rate-limited attempt doubles the backoff as well
send_rate_limited_doubles ==
    /\ send_pc = "response"
    /\ ~IsSuccess(r.status)
    /\ r.status = 429
    /\ sleeps' = Append(sleeps, RetryAfter(r, backoff) + Jitter(attempt))
    /\ backoff' = NextBackoff(backoff)
    /\ attempt' = attempt + 1
    /\ send_pc' = "attempt"
    /\ UNCHANGED <<embeds, payload, r, ret, responses, calls>>
    /\ UNCHANGED <<last_posted_date, envVars, runVars, textVars>>

\* lines 99-108: 429, sleep as the server advises, continue
send_rate_limited ==
    /\ send_pc = "response"
    /\ ~IsSuccess(r.status)
    /\ r.status = 429
    /\ sleeps' = Append(sleeps, RetryAfter(r, backoff) + Jitter(attempt))
    /\ attempt' = attempt + 1
    /\ send_pc' = "attempt"
    /\ UNCHANGED <<embeds, payload, backoff, r, ret, responses, calls>>
    /\ UNCHANGED <<last_posted_date, envVars, runVars, textVars>>

\* variant: no sleep after the response of the last attempt
send_other_error_last_unslept ==
    /\ send_pc = "response"
    /\ ~IsSuccess(r.status)
    /\ r.status # 429
    /\ sleeps' = (IF attempt + 1 < MaxAttempts
                    THEN Append(sleeps, backoff + Jitter(attempt))
                    ELSE sleeps)
    /\ backoff' = NextBackoff(backoff)
    /\ attempt' = attempt + 1
    /\ send_pc' = "attempt"
    /\ UNCHANGED <<embeds, payload, r, ret, responses, calls>>
    /\ UNCHANGED <<last_posted_date, envVars, runVars, textVars>>

\* lines 110-121: any other status (the Cloudflare test of lines 110-113 only
\* prints), sleep for the backoff, double the backoff
send_other_error ==
    /\ send_pc = "response"
    /\ ~IsSuccess(r.status)
    /\ r.status # 429
    /\ sleeps' = Append(sleeps, backoff + Jitter(attempt))
    /\ backoff' = NextBackoff(backoff)
    /\ attempt' = attempt + 1
    /\ send_pc' = "attempt"
    /\ UNCHANGED <<embeds, payload, r, ret, responses, calls>>
    /\ UNCHANGED <<last_posted_date, envVars, runVars, textVars>>

\* line 123: the loop has run out
send_exhausted ==
    /\ send_pc = "attempt"
    /\ ~LoopContinues
    /\ SendReturns("EXHAUSTED", r.status, Truncate(r.text))
    /\ UNCHANGED <<embeds, payload, attempt, backoff, r, responses, sleeps, calls>>
    /\ UNCHANGED <<last_posted_date, envVars, runVars, textVars>>

\* the caller has the result (or the exception); the frame is gone
send_leave ==
    /\ send_pc \in SendTerminal
    /\ send_pc' = "idle"
    /\ embeds' = <<>>
    /\ payload' = <<>>
    /\ attempt' = 0
    /\ backoff' = InitialBackoff
    /\ r' = NoResponse
    /\ ret' = NoReturn
    /\ responses' = <<>>
    /\ sleeps' = <<>>
    /\ calls' = 0
    /\ UNCHANGED <<last_posted_date, envVars, runVars, textVars>>

SendNext ==
    \/ send_enter
    \/ send_post
    \/ send_post_raises
    \/ send_success
    \/ send_rate_limited
    \/ send_other_error
    \/ send_exhausted
    \/ send_leave

----------------------------------------------------------------------------
(* run, lines 308-372 *)

RunActive == {"gate", "load", "collect", "discord", "telegram", "mark"}
RunReturned == {"already", "success", "error500"}

\* min(x + 1, MaxPosted): the history counter saturates
Bump(x) == Min(x + 1, MaxPosted)

\* variant: any earlier publish closes the gate ("is not None")
AlreadySent_NotNone(t) == last_posted_date # NoDate

\* line 314
AlreadySent(t) == last_posted_date = today[t]

\* line 361
TelegramConfigured == ~Falsy(TELEGRAM_TOKEN) /\ ~Falsy(TELEGRAM_CHANNEL)

\* all_embeds[i:i + 10] for the 0-based index ix
Chunk(all, ix) == SubSeq(all, ix + 1, Min(ix + BatchSize, Len(all)))

\* The results send_discord_embeds(chunk) can give its caller under the
\* configuration (lines 75-81, 95-96, 123; "raised": requests.post raised).
DeliveryResults(chunk) ==
    IF DISCORD_DISABLE = "1" THEN {[raised |-> FALSE, status |-> 204]}
    ELSE IF Falsy(DISCORD_WEBHOOK_URL) THEN {[raised |-> FALSE, status |-> 400]}
    ELSE IF chunk = <<>> THEN {[raised |-> FALSE, status |-> 204]}
    ELSE {[raised |-> FALSE, status |-> st] : st \in SuccessStatuses \cup ErrorStatuses}
         \cup {[raised |-> TRUE, status |-> 0]}

\* variant: the day is marked on the failure path too (a finally clause)
RunFails_Marks(t) ==
    /\ pc' = [pc EXCEPT ![t] = "error500"]
    /\ last_posted_date' = today[t]

\* the except clause of lines 370-372
RunFails(t) ==
    /\ pc' = [pc EXCEPT ![t] = "error500"]
    /\ UNCHANGED last_posted_date

\* line 311: today = date.today()
run_begin(t) ==
    /\ pc[t] = "idle"
    /\ today' = [today EXCEPT ![t] = clock]
    /\ entry_date' = [entry_date EXCEPT ![t] = last_posted_date]
    /\ pc' = [pc EXCEPT ![t] = "gate"]
    /\ UNCHANGED <<last_posted_date, envVars, sendVars, textVars>>
    /\ UNCHANGED <<all_embeds, i, dc_status, tg_sent, batches, marked, posted>>

\* lines 314-316: the gate
run_gate(t) ==
    /\ pc[t] = "gate"
    /\ pc' = [pc EXCEPT ![t] = IF AlreadySent(t) THEN "already" ELSE "load"]
    /\ UNCHANGED <<last_posted_date, envVars, sendVars, textVars>>
    /\ UNCHANGED <<today, all_embeds, i, dc_status, tg_sent, entry_date,
                   batches, marked, posted>>

\* line 319: load_players raises when players.txt cannot be read
run_load_players(t) ==
    /\ pc[t] = "load"
    /\ \/ pc' = [pc EXCEPT ![t] = "collect"] /\ UNCHANGED last_posted_date
       \/ RunFails(t)
    /\ UNCHANGED <<envVars, sendVars, textVars>>
    /\ UNCHANGED <<today, all_embeds, i, dc_status, tg_sent, entry_date,
                   batches, marked, posted>>

\* lines 325-351: one embed per player, in the order of the file; the
\* collaborators catch their own errors, analyze_matches may raise on a
\* malformed match record
run_collect(t) ==
    /\ pc[t] = "collect"
    /\ \/ /\ all_embeds' = [all_embeds EXCEPT ![t] = [k \in 1..players_txt |-> k]]
          /\ i' = [i EXCEPT ![t] = 0]
          /\ pc' = [pc EXCEPT ![t] = "discord"]
          /\ UNCHANGED last_posted_date
       \/ /\ RunFails(t)
          /\ UNCHANGED <<all_embeds, i>>
    /\ UNCHANGED <<envVars, sendVars, textVars>>
    /\ UNCHANGED <<today, dc_status, tg_sent, entry_date, batches, marked, posted>>

\* variant: the batch loop ends at the first batch that is not delivered
run_discord_batch_stops(t) ==
    /\ pc[t] = "discord"
    /\ i[t] < Len(all_embeds[t])
    /\ LET chunk == Chunk(all_embeds[t], i[t]) IN
         /\ batches' = [batches EXCEPT ![t] = Append(@, chunk)]
         /\ \E res \in DeliveryResults(chunk) :
              IF res.raised
                THEN /\ RunFails(t)
                     /\ UNCHANGED <<dc_status, i>>
                ELSE /\ dc_status' = [dc_status EXCEPT ![t] = res.status]
                     /\ i' = [i EXCEPT ![t] =
                               IF res.status \in SuccessStatuses
                                 THEN @ + BatchSize ELSE Len(all_embeds[t])]
                     /\ UNCHANGED <<pc, last_posted_date>>
    /\ UNCHANGED <<envVars, sendVars, textVars>>
    /\ UNCHANGED <<today, all_embeds, tg_sent, entry_date, marked, posted>>

\* lines 354-358: one iteration of the batch loop
run_discord_batch(t) ==
    /\ pc[t] = "discord"
    /\ i[t] < Len(all_embeds[t])
    /\ LET chunk == Chunk(all_embeds[t], i[t]) IN
         /\ batches' = [batches EXCEPT ![t] = Append(@, chunk)]
         /\ \E res \in DeliveryResults(chunk) :
              IF res.raised
                THEN /\ RunFails(t)
                     /\ UNCHANGED <<dc_status, i>>
                ELSE /\ dc_status' = [dc_status EXCEPT ![t] = res.status]
                     /\ i' = [i EXCEPT ![t] = @ + BatchSize]
                     /\ UNCHANGED <<pc, last_posted_date>>
    /\ UNCHANGED <<envVars, sendVars, textVars>>
    /\ UNCHANGED <<today, all_embeds, tg_sent, entry_date, marked, posted>>

\* variant: the day is marked as soon as the Discord loop ends, before the
\* Telegram send
run_discord_done_marks(t) ==
    /\ pc[t] = "discord"
    /\ i[t] >= Len(all_embeds[t])
    /\ last_posted_date' = today[t]
    /\ marked' = [marked EXCEPT ![t] = TRUE]
    /\ pc' = [pc EXCEPT ![t] = "telegram"]
    /\ UNCHANGED <<envVars, sendVars, textVars>>
    /\ UNCHANGED <<today, all_embeds, i, dc_status, tg_sent, entry_date,
                   batches, posted>>

\* line 354: the batch loop is over
run_discord_done(t) ==
    /\ pc[t] = "discord"
    /\ i[t] >= Len(all_embeds[t])
    /\ pc' = [pc EXCEPT ![t] = "telegram"]
    /\ UNCHANGED <<last_posted_date, envVars, sendVars, textVars>>
    /\ UNCHANGED <<today, all_embeds, i, dc_status, tg_sent, entry_date,
                   batches, marked, posted>>

\* lines 361-364: safe_send_to_telegram when configured; its requests.post
\* may raise
run_telegram(t) ==
    /\ pc[t] = "telegram"
    /\ IF TelegramConfigured
         THEN \/ /\ tg_sent' = [tg_sent EXCEPT ![t] = TRUE]
                 /\ pc' = [pc EXCEPT ![t] = "mark"]
                 /\ UNCHANGED last_posted_date
              \/ /\ RunFails(t)
                 /\ UNCHANGED tg_sent
         ELSE /\ pc' = [pc EXCEPT ![t] = "mark"]
              /\ UNCHANGED <<tg_sent, last_posted_date>>
    /\ UNCHANGED <<envVars, sendVars, textVars>>
    /\ UNCHANGED <<today, all_embeds, i, dc_status, entry_date, batches,
                   marked, posted>>

\* lines 366-368: mark the day and answer 200
run_mark(t) ==
    /\ pc[t] = "mark"
    /\ last_posted_date' = today[t]
    /\ marked' = [marked EXCEPT ![t] = TRUE]
    /\ posted' = [posted EXCEPT ![today[t]] = Bump(@)]
    /\ pc' = [pc EXCEPT ![t] = "success"]
    /\ UNCHANGED <<envVars, sendVars, textVars>>
    /\ UNCHANGED <<today, all_embeds, i, dc_status, tg_sent, entry_date, batches>>

\* the response is out; the thread serves the next request
run_return(t) ==
    /\ pc[t] \in RunReturned
    /\ pc' = [pc EXCEPT ![t] = "idle"]
    /\ today' = [today EXCEPT ![t] = NoDate]
    /\ all_embeds' = [all_embeds EXCEPT ![t] = <<>>]
    /\ i' = [i EXCEPT ![t] = 0]
    /\ dc_status' = [dc_status EXCEPT ![t] = 0]
    /\ tg_sent' = [tg_sent EXCEPT ![t] = FALSE]
    /\ entry_date' = [entry_date EXCEPT ![t] = NoDate]
    /\ batches' = [batches EXCEPT ![t] = <<>>]
    /\ marked' = [marked EXCEPT ![t] = FALSE]
    /\ UNCHANGED <<last_posted_date, envVars, sendVars, textVars, posted>>

\* midnight
next_day ==
    /\ clock < MaxDay
    /\ clock' = clock + 1
    /\ UNCHANGED <<players_txt, DISCORD_DISABLE, DISCORD_WEBHOOK_URL,
                   TELEGRAM_TOKEN, TELEGRAM_CHANNEL>>
    /\ UNCHANGED <<last_posted_date, runVars, sendVars, textVars>>

\* the server starts on a request only when no other request is in progress
run_begin_seq(t) ==
    /\ \A u \in Threads : pc[u] = "idle"
    /\ run_begin(t)

RunStep(t) ==
    \/ run_gate(t)
    \/ run_load_players(t)
    \/ run_collect(t)
    \/ run_discord_batch(t)
    \/ run_discord_done(t)
    \/ run_telegram(t)
    \/ run_mark(t)
    \/ run_return(t)

----------------------------------------------------------------------------
(* make_player_embed, lines 52-70 *)

DescriptionLengths ==
    (0..EmbedWindow) \cup ((DescLimit - EmbedWindow)..(DescLimit + EmbedWindow))

NoEmbed == [title |-> "", description |-> <<>>, color |-> 0]

\* variant: 4000 characters are kept before the ellipsis
TruncateDescription_Keeps4000(d) ==
    IF d # <<>> /\ Len(d) > DescLimit
      THEN SubSeq(d, 1, DescLimit) \o <<Ellipsis>>
      ELSE d

\* lines 57-58
TruncateDescription(d) ==
    IF d # <<>> /\ Len(d) > DescLimit
      THEN SubSeq(d, 1, DescKeep) \o <<Ellipsis>>
      ELSE d

\* lines 59-70 (the timestamp is the time of the call and is left out; the
\* footer is a constant)
MakeEmbed(ti, d, u) ==
    LET base == [title |-> IF ti = "" THEN "Update" ELSE ti,
                 description |-> IF TruncateDescription(d) = <<>>
                                   THEN <<ZeroWidthSpace>>
                                   ELSE TruncateDescription(d),
                 color |-> EmbedColor,
                 footer |-> "W3Champions AutoFeed"]
    IN  IF Falsy(u)
          THEN base
          ELSE [title |-> base.title, description |-> base.description,
                color |-> base.color, footer |-> base.footer, url |-> u]

\* the call with its arguments
embed_call ==
    /\ me_pc = "idle"
    /\ \E ti \in {"", "Stats"}, n \in DescriptionLengths,
          u \in {Unset, "https://www.w3champions.com/player/p"} :
         /\ title' = ti
         /\ description' = Body(n)
         /\ url' = u
    /\ me_pc' = "called"
    /\ UNCHANGED <<embed, tg_pc, tg_text, parts, idx, tg_posts>>
    /\ UNCHANGED <<last_posted_date, envVars, runVars, sendVars>>

\* lines 57-70
embed_make ==
    /\ me_pc = "called"
    /\ embed' = MakeEmbed(title, description, url)
    /\ me_pc' = "done"
    /\ UNCHANGED <<title, description, url, tg_pc, tg_text, parts, idx, tg_posts>>
    /\ UNCHANGED <<last_posted_date, envVars, runVars, sendVars>>

\* the caller has the embed
embed_leave ==
    /\ me_pc = "done"
    /\ me_pc' = "idle"
    /\ title' = ""
    /\ description' = <<>>
    /\ url' = Unset
    /\ embed' = NoEmbed
    /\ UNCHANGED <<tg_pc, tg_text, parts, idx, tg_posts>>
    /\ UNCHANGED <<last_posted_date, envVars, runVars, sendVars>>

EmbedNext ==
    \/ embed_call
    \/ embed_make
    \/ embed_leave

----------------------------------------------------------------------------
(* safe_send_to_telegram, lines 285-299 *)

TextLengths ==
    {n \in UNION {(MAX_LENGTH * c - TextWindow)..(MAX_LENGTH * c + TextWindow) :
                    c \in 0..MaxFullChunks} : n >= 0}

TelegramStatuses == {200, 400, 429}

\* line 288: [text[i:i + MAX_LENGTH] for i in range(0, len(text), MAX_LENGTH)]
Split(txt) ==
    [k \in 1..((Len(txt) + MAX_LENGTH - 1) \div MAX_LENGTH) |->
        SubSeq(txt, MAX_LENGTH * (k - 1) + 1, Min(MAX_LENGTH * k, Len(txt)))]

\* lines 285-288
tg_call ==
    /\ tg_pc = "idle"
    /\ \E n \in TextLengths :
         /\ tg_text' = Body(n)
         /\ parts' = Split(Body(n))
    /\ idx' = 0
    /\ tg_pc' = "loop"
    /\ UNCHANGED <<tg_posts, me_pc, title, description, url, embed>>
    /\ UNCHANGED <<last_posted_date, envVars, runVars, sendVars>>

\* variant: a chunk that is not accepted is posted again
tg_post_retries ==
    /\ tg_pc = "loop"
    /\ idx < Len(parts)
    /\ \E st \in TelegramStatuses :
         /\ tg_posts' = Append(tg_posts, [text |-> parts[idx + 1], status |-> st])
         /\ idx' = (IF st = 200 THEN idx + 1 ELSE idx)
    /\ UNCHANGED <<tg_pc, tg_text, parts, me_pc, title, description, url, embed>>
    /\ UNCHANGED <<last_posted_date, envVars, runVars, sendVars>>

\* lines 289-299: one chunk: the post, the print of its status, the pause of
\* one second
tg_post ==
    /\ tg_pc = "loop"
    /\ idx < Len(parts)
    /\ \E st \in TelegramStatuses :
         tg_posts' = Append(tg_posts, [text |-> parts[idx + 1], status |-> st])
    /\ idx' = idx + 1
    /\ UNCHANGED <<tg_pc, tg_text, parts, me_pc, title, description, url, embed>>
    /\ UNCHANGED <<last_posted_date, envVars, runVars, sendVars>>

\* line 295: requests.post raises; nothing in safe_send_to_telegram catches it
tg_post_raises ==
    /\ tg_pc = "loop"
    /\ idx < Len(parts)
    /\ tg_pc' = "raised"
    /\ UNCHANGED <<tg_text, parts, idx, tg_posts, me_pc, title, description,
                   url, embed>>
    /\ UNCHANGED <<last_posted_date, envVars, runVars, sendVars>>

\* line 289: the loop is over
tg_done ==
    /\ tg_pc = "loop"
    /\ idx >= Len(parts)
    /\ tg_pc' = "done"
    /\ UNCHANGED <<tg_text, parts, idx, tg_posts, me_pc, title, description,
                   url, embed>>
    /\ UNCHANGED <<last_posted_date, envVars, runVars, sendVars>>

\* the caller goes on (or has the exception)
tg_leave ==
    /\ tg_pc \in {"done", "raised"}
    /\ tg_pc' = "idle"
    /\ tg_text' = <<>>
    /\ parts' = <<>>
    /\ idx' = 0
    /\ tg_posts' = <<>>
    /\ UNCHANGED <<me_pc, title, description, url, embed>>
    /\ UNCHANGED <<last_posted_date, envVars, runVars, sendVars>>

TelegramNext ==
    \/ tg_call
    \/ tg_post
    \/ tg_post_raises
    \/ tg_done
    \/ tg_leave

----------------------------------------------------------------------------
(* Initial states and specifications *)

InitProcess ==
    /\ last_posted_date = NoDate
    /\ clock = 1
    /\ DISCORD_DISABLE \in {"0", "1"}
    /\ DISCORD_WEBHOOK_URL \in {Unset, WebhookUrl}
    /\ pc = [t \in Threads |-> "idle"]
    /\ today = [t \in Threads |-> NoDate]
    /\ all_embeds = [t \in Threads |-> <<>>]
    /\ i = [t \in Threads |-> 0]
    /\ dc_status = [t \in Threads |-> 0]
    /\ tg_sent = [t \in Threads |-> FALSE]
    /\ entry_date = [t \in Threads |-> NoDate]
    /\ batches = [t \in Threads |-> <<>>]
    /\ marked = [t \in Threads |-> FALSE]
    /\ posted = [d \in Days |-> 0]
    /\ send_pc = "idle"
    /\ embeds = <<>>
    /\ payload = <<>>
    /\ attempt = 0
    /\ backoff = InitialBackoff
    /\ r = NoResponse
    /\ ret = NoReturn
    /\ calls = 0
    /\ responses = <<>>
    /\ sleeps = <<>>
    /\ me_pc = "idle"
    /\ title = ""
    /\ description = <<>>
    /\ url = Unset
    /\ embed = NoEmbed
    /\ tg_pc = "idle"
    /\ tg_text = <<>>
    /\ parts = <<>>
    /\ idx = 0
    /\ tg_posts = <<>>

\* the process with its players file and its Telegram configuration
Init ==
    /\ InitProcess
    /\ players_txt \in 0..MaxPlayers
    /\ TELEGRAM_TOKEN \in {Unset, "token"}
    /\ TELEGRAM_CHANNEL \in {Unset, "@channel"}

\* one call of send_discord_embeds: what run is about plays no part
InitSend ==
    /\ InitProcess
    /\ players_txt = 0
    /\ TELEGRAM_TOKEN = Unset
    /\ TELEGRAM_CHANNEL = Unset

NextSeq ==
    \/ \E t \in Threads : run_begin_seq(t)
    \/ \E t \in Threads : RunStep(t)
    \/ next_day

NextConc ==
    \/ \E t \in Threads : run_begin(t)
    \/ \E t \in Threads : RunStep(t)
    \/ next_day

SpecSeq == Init /\ [][NextSeq]_vars
SpecConc == Init /\ [][NextConc]_vars
SpecSend == InitSend /\ [][SendNext]_vars

\* one call of a function of texts: the configuration plays no part
InitText ==
    /\ InitSend
    /\ DISCORD_DISABLE = "0"
    /\ DISCORD_WEBHOOK_URL = WebhookUrl

SpecEmbed == InitText /\ [][EmbedNext]_vars
SpecTelegram == InitText /\ [][TelegramNext]_vars

----------------------------------------------------------------------------
(* The daily gate *)

\* C1: when /run triggers are handled concurrently on one calendar day, at
\* most one of them passes the gate and publishes: no day is published by
\* two runs.
NoDayPublishedTwice == \A d \in Days : posted[d] <= 1

\* C2: the gate check for D permits the run exactly when last_posted_date
\* differs from D; with triggers handled one at a time it refuses exactly
\* when D has been marked before, so a check for D with no mark for D
\* permits (also a second one, also one for D+1 after a mark for D) and every
\* check for D after a mark for D refuses.
GateFollowsMarks ==
    [][\A t \in Threads :
         (pc[t] = "gate" /\ pc'[t] # "gate") =>
            /\ pc'[t] \in {"load", "already"}
            /\ (pc'[t] = "load") <=> (last_posted_date # today[t])
            /\ (pc'[t] = "already") <=> (posted[today[t]] > 0)]_vars

\* a check for day 2 after a mark for day 1 has permitted the run, and a
\* check for day 1 after the mark for day 1 was refused before
GateWitness ==
    \E t \in Threads :
        /\ pc[t] = "load"
        /\ today[t] = 2
        /\ last_posted_date = 1
        /\ posted[1] = 1

\* C3: a run that ends through the except clause (500) leaves
\* last_posted_date as it was when the run began, so the gate is still open
\* for the day of the run.
FailureLeavesGate ==
    \A t \in Threads :
        pc[t] = "error500" =>
            /\ last_posted_date = entry_date[t]
            /\ last_posted_date # today[t]

\* a run has failed after a Discord batch was delivered, on a day after a
\* successful publish
FailureWitness ==
    \E t \in Threads :
        /\ pc[t] = "error500"
        /\ Len(batches[t]) = 2
        /\ dc_status[t] = 500
        /\ last_posted_date = 1
        /\ today[t] = 2

\* C4: when a run marks the day, every Discord batch of the run has been
\* handed to send_discord_embeds and has returned and the Telegram send, when
\* configured, is done; after its mark the run delivers nothing.
DeliveriesDone(t) ==
    /\ pc[t] \in RunActive
    /\ Len(batches[t]) * BatchSize >= Len(all_embeds[t])
    /\ i[t] = Len(batches[t]) * BatchSize
    /\ TelegramConfigured => tg_sent[t]

MarkAfterDeliveries ==
    [][\A t \in Threads :
         /\ (~marked[t] /\ marked'[t]) => DeliveriesDone(t)
         /\ (marked[t] /\ marked'[t]) =>
               /\ batches'[t] = batches[t]
               /\ tg_sent'[t] = tg_sent[t]]_vars

\* a run has marked after two Discord batches and the Telegram send
MarkWitness ==
    \E t \in Threads :
        /\ marked[t]
        /\ Len(batches[t]) = 2
        /\ tg_sent[t]
        /\ last_posted_date = today[t]

----------------------------------------------------------------------------
(* The delivery client *)

\* the first n responses have been classified (the last one is pending while
\* the call is at "response")
Handled == IF send_pc = "response" THEN Len(responses) - 1 ELSE Len(responses)

\* m: the responses classified so far that are neither a success nor a 429
OtherErrors ==
    Cardinality({k \in 1..Handled : responses[k] \notin {200, 204, 429}})

\* C5: a call makes at most 5 network calls whatever the responses are
\* (a 429 uses up an attempt like any other response), it can always take
\* its next step until it ends, and a call whose network calls all returned
\* a response ends SKIPPED, EMPTY, SUCCESS or EXHAUSTED; EXHAUSTED only after
\* the 5th attempt.
SendBounded ==
    /\ calls <= 5
    /\ attempt <= 5
    /\ calls \in {attempt, attempt + 1}
    /\ send_pc \in {"idle", "attempt", "response"} \cup SendTerminal
    /\ send_pc \in {"attempt", "response"} => ENABLED SendNext
    /\ (send_pc \in SendTerminal /\ Len(responses) = calls) =>
          send_pc \in {"SKIPPED", "EMPTY", "SUCCESS", "EXHAUSTED"}
    /\ send_pc \in {"SKIPPED", "EMPTY"} => calls = 0
    /\ send_pc = "SUCCESS" => calls \in 1..5
    /\ send_pc = "EXHAUSTED" => calls = 5 /\ Len(responses) = 5

\* a call has ended EXHAUSTED after five rate-limited attempts
SendBoundedWitness ==
    /\ send_pc = "EXHAUSTED"
    /\ responses = <<429, 429, 429, 429, 429>>
    /\ calls = 5

\* C6: send_discord_embeds never raises to its caller.
SendNeverRaises == send_pc # "RAISED"

\* C7: a success status (200 or 204) is the last response of its call: the
\* call has made exactly as many network calls as responses up to it, has not
\* slept after it, and returns that status with "OK".
FirstSuccessReturns ==
    \A k \in 1..Len(responses) :
        responses[k] \in {200, 204} =>
            /\ k = Len(responses)
            /\ calls = k
            /\ Len(sleeps) = k - 1
            /\ send_pc \in {"response", "SUCCESS"}
            /\ send_pc = "SUCCESS" =>
                  ret = [status |-> responses[k], msg |-> MsgOK]

\* the responses [429 (retry_after 2), 429 (retry_after 1), 200]: three
\* calls, two sleeps, success
FirstSuccessWitness ==
    /\ send_pc = "SUCCESS"
    /\ responses = <<429, 429, 200>>
    /\ sleeps = <<2000, 1200>>
    /\ calls = 3
    /\ ret.status = 200

\* C8: a call that ends EXHAUSTED has seen 5 non-success responses and
\* returns the status of the 5th with the first min(len, 600) characters of
\* its body.
ExhaustedReturnsLast ==
    send_pc = "EXHAUSTED" =>
        /\ Len(responses) = 5
        /\ \A k \in 1..5 : responses[k] \notin {200, 204}
        /\ r.status = responses[5]
        /\ ret.status = responses[5]
        /\ Len(ret.msg) <= 600
        /\ Len(ret.msg) = Min(Len(r.text), 600)
        /\ \A k \in 1..Len(ret.msg) : ret.msg[k] = r.text[k]

\* five 500 responses, the last with a body longer than 600 characters
ExhaustedWitness ==
    /\ send_pc = "EXHAUSTED"
    /\ responses = <<500, 500, 500, 500, 500>>
    /\ Len(r.text) > 600
    /\ Len(ret.msg) = 600
    /\ ret.status = 500

\* C9: the backoff is min(2^m, 8) seconds, m the number of responses
\* classified so far that are neither a success nor a 429: a 429 leaves it
\* unchanged.
BackoffCountsOtherErrors ==
    send_pc \in {"attempt", "response", "SUCCESS", "EXHAUSTED", "RAISED"} =>
        backoff = Min(2 ^ OtherErrors, 8) * 1000

\* after [429, 500, 429, 429] the backoff has doubled once
BackoffWitness ==
    /\ send_pc = "attempt"
    /\ responses = <<429, 500, 429, 429>>
    /\ backoff = 2000

\* C10: on a 429 at attempt a the call sleeps retry_after + 0.2 a when the
\* body carries a parsable retry_after, and backoff + 0.2 a otherwise.
RateLimitSleep ==
    [][(send_pc = "response" /\ r.status = 429) =>
          /\ send_pc' = "attempt"
          /\ sleeps' = Append(sleeps,
                (IF r.retry_after.kind = "number"
                   THEN r.retry_after.ms ELSE backoff) + 200 * attempt)]_vars

\* [500, 429 (retry_after 2), 429 (no retry_after)]: sleeps of 1.0, 2.2 and
\* 2.4 seconds
RateLimitWitness ==
    /\ send_pc = "attempt"
    /\ responses = <<500, 429, 429>>
    /\ sleeps = <<1000, 2200, 2400>>

\* C11: on a response that is neither a success nor a 429 the call sleeps
\* backoff + 0.2 a and then doubles the backoff up to 8; the backoff of a
\* call starts at 1, is always one of 1, 2, 4, 8 seconds and never decreases
\* while the call lasts.
BackoffDoubles ==
    [][/\ (send_pc = "response" /\ r.status \notin {200, 204, 429}) =>
             /\ sleeps' = Append(sleeps, backoff + 200 * attempt)
             /\ backoff' = (IF backoff * 2 <= 8000 THEN backoff * 2 ELSE 8000)
       /\ (send_pc = "idle" /\ send_pc' = "attempt") => backoff' = 1000
       /\ backoff' \in {1000, 2000, 4000, 8000}
       /\ send_pc' # "idle" => backoff' >= backoff]_vars

\* four 500 responses: sleeps of 1.0, 2.2, 4.4 and 8.6 seconds, the backoff
\* at its ceiling
BackoffDoublesWitness ==
    /\ send_pc = "attempt"
    /\ responses = <<500, 500, 500, 500>>
    /\ sleeps = <<1000, 2200, 4400, 8600>>
    /\ backoff = 8000

\* C12: when no response of a call is a success or a 429, the delays slept
\* between consecutive network calls never decrease.
DelaysNonDecreasing ==
    (\A k \in 1..Len(responses) : responses[k] \notin {200, 204, 429}) =>
        \A j, k \in 1..Len(sleeps) : j <= k => sleeps[j] <= sleeps[k]

\* five 500 responses: 1.0, 2.2, 4.4, 8.6, 8.8 seconds
DelaysWitness ==
    /\ send_pc = "EXHAUSTED"
    /\ responses = <<500, 500, 500, 500, 500>>
    /\ sleeps = <<1000, 2200, 4400, 8600, 8800>>

\* the destination is disabled or has no endpoint URL
Skipping == DISCORD_DISABLE = "1" \/ DISCORD_WEBHOOK_URL \in {Unset, ""}

\* C13: with the destination disabled or its URL unset, a call returns at
\* once as SKIPPED, for every batch, without a network call and without a
\* sleep; no other call ends SKIPPED.
SkippedWithoutCall ==
    /\ Skipping =>
          /\ send_pc \in {"idle", "SKIPPED"}
          /\ calls = 0
          /\ sleeps = <<>>
          /\ responses = <<>>
    /\ send_pc = "SKIPPED" =>
          /\ Skipping
          /\ ret = (IF DISCORD_DISABLE = "1"
                      THEN [status |-> 204, msg |-> MsgDisabled]
                      ELSE [status |-> 400, msg |-> MsgNoUrl])

\* a batch of ten embeds for an enabled destination without URL is skipped
SkippedWitness ==
    /\ send_pc = "SKIPPED"
    /\ DISCORD_DISABLE = "0"
    /\ DISCORD_WEBHOOK_URL = Unset
    /\ Len(embeds) = 10
    /\ ret.status = 400

\* C14: the status of a skipped call is one that no delivery attempt can
\* return, neither as a success nor as a failure.
SkippedStatusDistinct ==
    send_pc = "SKIPPED" =>
        ret.status \notin {200, 204} \cup {rsp.status : rsp \in Responses}

\* C15 as stated: every call with an empty batch ends EMPTY, whatever the
\* configuration of the destination.
EmptyBatchAlwaysEmpty ==
    (send_pc \in SendTerminal /\ embeds = <<>>) =>
        (send_pc = "EMPTY" /\ calls = 0)

\* C15, amended: a call with an empty batch makes no network call; it ends
\* EMPTY with (204, "No embeds to send") when the destination is enabled and
\* has a URL, and SKIPPED otherwise (lines 75-79 come first).
EmptyBatchNoCall ==
    /\ (send_pc # "idle" /\ embeds = <<>>) =>
          /\ calls = 0
          /\ sleeps = <<>>
          /\ send_pc = (IF Skipping THEN "SKIPPED" ELSE "EMPTY")
    /\ send_pc = "EMPTY" =>
          /\ embeds = <<>>
          /\ ret = [status |-> 204, msg |-> MsgNoEmbeds]

\* an empty batch for an enabled destination with a URL
EmptyBatchWitness ==
    /\ send_pc = "EMPTY"
    /\ embeds = <<>>
    /\ DISCORD_DISABLE = "0"
    /\ DISCORD_WEBHOOK_URL = WebhookUrl

\* C20: every non-success response is followed by one sleep before the
\* call goes on, the response of the 5th attempt included: a call that ends
\* EXHAUSTED has made 5 network calls and 5 sleeps, the 5th sleep after the
\* 5th response and before the return.
SleepAfterEveryFailure ==
    /\ send_pc \in {"response", "SUCCESS"} => Len(sleeps) = Len(responses) - 1
    /\ send_pc \in {"attempt", "EXHAUSTED", "RAISED"} =>
          Len(sleeps) = Len(responses)
    /\ send_pc = "EXHAUSTED" =>
          /\ calls = 5
          /\ Len(responses) = 5
          /\ Len(sleeps) = 5

\* [500, 429, 500, 429, 500]: five calls, five sleeps, the last one of
\* 4.0 + 0.8 seconds after the fifth response
SleepWitness ==
    /\ send_pc = "EXHAUSTED"
    /\ responses = <<500, 429, 500, 429, 500>>
    /\ Len(sleeps) = 5
    /\ sleeps[5] = 4800
    /\ calls = 5

----------------------------------------------------------------------------
(* The channels of a run *)

\* C16: a Discord batch that fails (its retries exhausted, or its network
\* call failing) does not end the run: a run that has handed a batch to
\* send_discord_embeds and has answered went through all its batches.
DiscordFailureNeverAborts ==
    \A t \in Threads :
        (pc[t] \in {"success", "error500"} /\ batches[t] # <<>>) =>
            /\ i[t] = Len(batches[t]) * 10
            /\ i[t] >= Len(all_embeds[t])

\* C18: the embeds of a run are the players in file order; the batches
\* handed to send_discord_embeds are the consecutive slices of 10 of them (the
\* last one shorter), the next one handed over whatever status the one before
\* returned, so that past the loop there are ceil(n / 10) batches holding
\* every embed once.
BatchesPartitionEmbeds ==
    \A t \in Threads :
        LET n == Len(all_embeds[t]) IN
        /\ pc[t] \in {"discord", "telegram", "mark", "success"} =>
              /\ all_embeds[t] = [k \in 1..players_txt |-> k]
              /\ i[t] = 10 * Len(batches[t])
        /\ \A k \in 1..Len(batches[t]) :
              /\ Len(batches[t][k]) \in 1..10
              /\ (k < Len(batches[t]) => Len(batches[t][k]) = 10)
              /\ \A j \in 1..Len(batches[t][k]) :
                    batches[t][k][j] = all_embeds[t][10 * (k - 1) + j]
        /\ pc[t] \in {"telegram", "mark", "success"} =>
              /\ Len(batches[t]) = (n + 9) \div 10
              /\ (n > 0 => 10 * (Len(batches[t]) - 1)
                             + Len(batches[t][Len(batches[t])]) = n)

\* eleven players: a batch of ten and a batch of one, the second handed over
\* and answered with 429, the run on its way to Telegram
BatchesWitness ==
    \E t \in Threads :
        /\ pc[t] = "telegram"
        /\ Len(all_embeds[t]) = 11
        /\ Len(batches[t]) = 2
        /\ Len(batches[t][1]) = 10
        /\ batches[t][2] = <<11>>
        /\ dc_status[t] = 429

----------------------------------------------------------------------------
(* Texts *)

\* C17 as stated: the body of the embed is the first 3995 characters and an
\* ellipsis when the description is longer than 4000, and the description
\* itself when it is not; it is never longer than 4000.
EmbedBodyAsStated ==
    me_pc = "done" =>
        /\ Len(embed.description) <= 4000
        /\ embed.description =
              (IF Len(description) > 4000
                 THEN SubSeq(description, 1, 3995) \o <<8230>>
                 ELSE description)

\* C17, amended: as stated for every description that is not empty; an empty
\* description gives the one-character body U+200B; the body has between 1
\* and 4000 characters.
EmbedBodyTruncated ==
    me_pc = "done" =>
        /\ Len(embed.description) \in 1..4000
        /\ embed.description =
              (IF Len(description) > 4000
                 THEN SubSeq(description, 1, 3995) \o <<8230>>
               ELSE IF Len(description) = 0 THEN <<8203>>
               ELSE description)

\* a description of 4001 characters became one of 3996
EmbedWitness ==
    /\ me_pc = "done"
    /\ Len(description) = 4001
    /\ Len(embed.description) = 3996
    /\ embed.description[3996] = 8230

RECURSIVE Concat(_)
Concat(ss) == IF ss = <<>> THEN <<>> ELSE Head(ss) \o Concat(Tail(ss))

\* C19: the chunks are consecutive slices of at most 4000 characters whose
\* concatenation is the text, ceil(L / 4000) of them; the posts made so far
\* are the first chunks in order, one post each whatever the status was, and
\* a call that returns has posted every chunk once.
TelegramOnePostPerChunk ==
    tg_pc # "idle" =>
        /\ Len(parts) = (Len(tg_text) + 3999) \div 4000
        /\ \A k \in 1..Len(parts) : Len(parts[k]) \in 1..4000
        /\ Concat(parts) = tg_text
        /\ Len(tg_posts) <= Len(parts)
        /\ \A k \in 1..Len(tg_posts) : tg_posts[k].text = parts[k]
        /\ tg_pc = "loop" => Len(tg_posts) = idx
        /\ tg_pc = "done" => Len(tg_posts) = Len(parts)

\* a text of 8001 characters went out in three posts, the first answered 429
\* and not repeated
TelegramWitness ==
    /\ tg_pc = "done"
    /\ Len(tg_text) = 8001
    /\ Len(tg_posts) = 3
    /\ tg_posts[1].status = 429
    /\ Len(tg_posts[3].text) = 1

====
